---- MODULE Spec2Model ----
(***************************************************************************)
(* A model of the libby COSMIC application (src/src/app.rs).               *)
(*                                                                         *)
(* Part I   the application model: AppModel::init, AppModel::update,       *)
(*          AppModel::on_nav_select, AppModel::dialog and                  *)
(*          AppModel::context_drawer, with the persisted configuration.    *)
(***************************************************************************)
EXTENDS Integers, Sequences, FiniteSets, TLC

\* Longest username the model types, saves and loads.
MaxLen == 1

\* Ticks of the clock per second, and the seconds the clock is followed for.
TicksPerSec == 5

MaxSecs == 31

VARIABLES
    nav,            \* AppModel.nav: the nav bar model (items and the active id)
    context_page,   \* AppModel.context_page
    show_context,   \* AppModel.core.window.show_context
    config,         \* AppModel.config
    show_popup,     \* AppModel.show_popup
    window_title,   \* the title update_title last asked the runtime to set
    storage,        \* the persisted entry of the key "username"
    last,           \* the message (or callback) handled last
    old,            \* the application model as it was before that message
    task,           \* the Task that handler returned to the runtime
    elapsed,        \* animation_time.elapsed(), in ticks
    bounds,         \* the bounds draw is called with
    cursor,         \* the cursor draw is called with
    frame,          \* the shapes of the frame drawn last
    probe           \* a position put through the mouse avoidance on its own

appvars == <<nav, context_page, show_context, config, show_popup, window_title>>
uivars == <<nav, context_page, show_context, config, show_popup, window_title,
            storage, last, old, task>>
drawvars == <<elapsed, bounds, cursor, frame>>
canvasvars == <<drawvars, probe>>
vars == <<uivars, canvasvars>>

----------------------------------------------------------------------------
(* Strings are sequences of characters. *)

Quote == "\""
Backslash == "\\"

\* The characters usernames are made of: a plain one and the two that the
\* serialisation has to escape.
Alphabet == {"a", Quote, Backslash}

Usernames == UNION {[1..n -> Alphabet] : n \in 0..MaxLen}

----------------------------------------------------------------------------
(* enum Page, enum ContextPage *)

Page == {"Page1", "Page2", "Page3"}

ContextPage == {"About", "Settings"}

ContextPageDefault == "About"

----------------------------------------------------------------------------
(* The configuration and its stored form. *)

\* Config::default(): the username is empty.
ConfigDefault == [username |-> <<>>]

Configs == [username : Usernames]

EscapeChar(c) ==
    IF c = Quote THEN <<Backslash, Quote>>
    ELSE IF c = Backslash THEN <<Backslash, Backslash>>
    ELSE <<c>>

RECURSIVE Escape(_)
Escape(s) == IF s = <<>> THEN <<>> ELSE EscapeChar(Head(s)) \o Escape(Tail(s))

\* The text written for a string value: the string between quotes, quotes
\* and backslashes escaped.
Serialize(s) == <<Quote>> \o Escape(s) \o <<Quote>>

ParseError == [ok |-> FALSE, value |-> <<>>]

RECURSIVE ParseBody(_, _, _)
ParseBody(t, i, acc) ==
    IF i > Len(t) THEN ParseError                      \* no closing quote
    ELSE IF t[i] = Quote
         THEN IF i = Len(t) THEN [ok |-> TRUE, value |-> acc]
              ELSE ParseError                          \* text after the string
    ELSE IF t[i] = Backslash
         THEN IF i + 1 <= Len(t) /\ t[i + 1] \in {Quote, Backslash}
              THEN ParseBody(t, i + 2, Append(acc, t[i + 1]))
              ELSE ParseError                          \* unknown escape
    ELSE ParseBody(t, i + 1, Append(acc, t[i]))

\* The string value a stored text stands for, or an error.
Deserialize(t) ==
    IF Len(t) >= 2 /\ t[1] = Quote THEN ParseBody(t, 2, <<>>) ELSE ParseError

NoEntry == [exists |-> FALSE, text |-> <<>>]

Entry(t) == [exists |-> TRUE, text |-> t]

\* A stored text that is no string value.
Garbage == <<"a">>

\* What the environment lets a configuration access do.
LoadOutcomes == {"ok", "no_context", "read_error"}

SaveOutcomes == {"ok", "no_context", "write_error"}

\* cosmic_config::Config::new(..).map(get_entry).unwrap_or_default()
LoadConfig(st, io) ==
    IF io = "no_context" THEN ConfigDefault
    ELSE IF io = "read_error" \/ ~st.exists THEN ConfigDefault
    ELSE LET r == Deserialize(st.text)
         IN  IF r.ok THEN [username |-> r.value] ELSE ConfigDefault

\* self.config.write_entry(&config_context)
WriteEntry(st, cfg, io) ==
    IF io = "ok" THEN Entry(Serialize(cfg.username)) ELSE st

----------------------------------------------------------------------------
(* nav_bar::Model *)

\* The nav items init inserts, in order; the id of an item is its position.
NavItems == <<"Page1", "Page2", "Page3">>

NavIds == DOMAIN NavItems

\* nav.insert()...activate() of the first item only
NavInit == [data |-> NavItems, active |-> 1]

\* NavActivate forgetting to move the active id.
NavActivate_Keep(n, id) == n

\* nav.activate(id)
NavActivate(n, id) == IF id \in DOMAIN n.data THEN [n EXCEPT !.active = id] ELSE n

\* nav.data::<Page>(nav.active()).copied().unwrap_or(Page::Page1)
ActivePage(n) == IF n.active \in DOMAIN n.data THEN n.data[n.active] ELSE "Page1"

\* The pages whose nav item is the active one.
ActivePages(n) == {n.data[i] : i \in {j \in DOMAIN n.data : j = n.active}}

\* update_title: the application title and the text of the active nav item
UpdateTitle(n) ==
    IF n.active \in DOMAIN n.data THEN <<"app-title", n.active>> ELSE <<"app-title">>

----------------------------------------------------------------------------
(* What the views show. *)

\* AppModel::context_drawer
ContextDrawer(show, page) == IF ~show THEN "None" ELSE page

\* Dialog without the match on the active page.
Dialog_AnyPage(popup, n) == IF popup THEN "Some" ELSE "None"

\* AppModel::dialog
Dialog(popup, n) ==
    IF popup
    THEN IF ActivePage(n) = "Page1" THEN "Some" ELSE "None"
    ELSE "None"

----------------------------------------------------------------------------
(* The state machine. *)

Snapshot ==
    [nav |-> nav, context_page |-> context_page, show_context |-> show_context,
     config |-> config, show_popup |-> show_popup, window_title |-> window_title,
     storage |-> storage]

\* Every handler records its message and the model it started from; none
\* touches what the canvas is drawn from.
Handled(msg) == last' = msg /\ old' = Snapshot /\ UNCHANGED canvasvars

\* Task::none(): nothing for the runtime to run, no message to come of it.
TaskNone == "none"

\* The Task update_title hands back: the window title to set, if there is a
\* main window.
TaskUpdateTitle == "update_title"

\* The handler returns the task t.
Returns(t) == task' = t

\* AppModel::init
InitModel(io) ==
    /\ nav' = NavInit
    /\ context_page' = ContextPageDefault
    /\ show_context' = FALSE
    /\ config' = LoadConfig(storage, io)
    /\ show_popup' = FALSE
    /\ window_title' = UpdateTitle(NavInit)

InitApp ==
    /\ storage \in {NoEntry, Entry(Garbage)} \cup {Entry(Serialize(u)) : u \in Usernames}
    /\ \E io \in LoadOutcomes :
          /\ nav = NavInit
          /\ context_page = ContextPageDefault
          /\ show_context = FALSE
          /\ config = LoadConfig(storage, io)
          /\ show_popup = FALSE
          /\ window_title = UpdateTitle(NavInit)
          /\ last = [type |-> "init", io |-> io]
          /\ task = TaskUpdateTitle
    /\ old = [nav |-> nav, context_page |-> context_page,
              show_context |-> show_context, config |-> config,
              show_popup |-> show_popup, window_title |-> window_title,
              storage |-> storage]

\* The process is started again: init runs on what was stored.
Relaunch ==
    \E io \in LoadOutcomes :
        /\ InitModel(io)
        /\ UNCHANGED storage
        /\ Handled([type |-> "init", io |-> io])
        /\ Returns(TaskUpdateTitle)

OpenRepositoryUrl ==
    /\ UNCHANGED <<appvars, storage>>
    /\ Handled([type |-> "OpenRepositoryUrl"])
    /\ Returns(TaskNone)

OpenAuthorUrl ==
    /\ UNCHANGED <<appvars, storage>>
    /\ Handled([type |-> "OpenAuthorUrl"])
    /\ Returns(TaskNone)

SubscriptionChannel ==
    /\ UNCHANGED <<appvars, storage>>
    /\ Handled([type |-> "SubscriptionChannel"])
    /\ Returns(TaskNone)

\* TogglePopup setting the flag instead of negating it.
TogglePopup_Set ==
    /\ show_popup' = TRUE
    /\ UNCHANGED <<nav, context_page, show_context, config, window_title, storage>>
    /\ Handled([type |-> "TogglePopup"])
    /\ Returns(TaskNone)

TogglePopup ==
    /\ show_popup' = ~show_popup
    /\ UNCHANGED <<nav, context_page, show_context, config, window_title, storage>>
    /\ Handled([type |-> "TogglePopup"])
    /\ Returns(TaskNone)

\* ToggleContextPage opening the drawer in both branches.
ToggleContextPage_Open(p) ==
    /\ context_page' = p
    /\ show_context' = TRUE
    /\ UNCHANGED <<nav, config, show_popup, window_title, storage>>
    /\ Handled([type |-> "ToggleContextPage", page |-> p])
    /\ Returns(TaskNone)

ToggleContextPage(p) ==
    /\ IF context_page = p
       THEN /\ show_context' = ~show_context
            /\ UNCHANGED context_page
       ELSE /\ context_page' = p
            /\ show_context' = TRUE
    /\ UNCHANGED <<nav, config, show_popup, window_title, storage>>
    /\ Handled([type |-> "ToggleContextPage", page |-> p])
    /\ Returns(TaskNone)

UpdateConfig(c) ==
    /\ config' = c
    /\ UNCHANGED <<nav, context_page, show_context, show_popup, window_title, storage>>
    /\ Handled([type |-> "UpdateConfig", config |-> c])
    /\ Returns(TaskNone)

LaunchUrl ==
    /\ UNCHANGED <<appvars, storage>>
    /\ Handled([type |-> "LaunchUrl"])
    /\ Returns(TaskNone)

Tick ==
    /\ UNCHANGED <<appvars, storage>>
    /\ Handled([type |-> "Tick"])
    /\ Returns(TaskNone)

\* GoToPage3 activating the nav item after the active one.
GoToPage3_Next ==
    LET id == IF nav.active + 1 \in DOMAIN nav.data THEN nav.active + 1
              ELSE nav.active
    IN  /\ nav' = NavActivate(nav, id)
        /\ window_title' = UpdateTitle(NavActivate(nav, id))
        /\ Returns(TaskUpdateTitle)
        /\ UNCHANGED <<context_page, show_context, config, show_popup, storage>>
        /\ Handled([type |-> "GoToPage3"])

GoToPage3 ==
    LET found == {id \in DOMAIN nav.data : nav.data[id] = "Page3"}
    IN  /\ IF found # {}
           THEN LET id == CHOOSE i \in found : \A j \in found : i <= j
                IN  /\ nav' = NavActivate(nav, id)
                    /\ window_title' = UpdateTitle(NavActivate(nav, id))
                    /\ Returns(TaskUpdateTitle)
           ELSE /\ UNCHANGED <<nav, window_title>>
                /\ Returns(TaskNone)
        /\ UNCHANGED <<context_page, show_context, config, show_popup, storage>>
        /\ Handled([type |-> "GoToPage3"])

\* UpdateUsername saving what was typed straight away.
UpdateUsername_AutoSave(u) ==
    /\ config' = [config EXCEPT !.username = u]
    /\ storage' = Entry(Serialize(u))
    /\ UNCHANGED <<nav, context_page, show_context, show_popup, window_title>>
    /\ Handled([type |-> "UpdateUsername", username |-> u])
    /\ Returns(TaskNone)

UpdateUsername(u) ==
    /\ config' = [config EXCEPT !.username = u]
    /\ UNCHANGED <<nav, context_page, show_context, show_popup, window_title, storage>>
    /\ Handled([type |-> "UpdateUsername", username |-> u])
    /\ Returns(TaskNone)

\* SaveSettings writing the configuration it last read instead of self.config.
SaveSettings_Stale ==
    \E io \in SaveOutcomes :
        /\ storage' = IF io = "no_context" THEN storage
                      ELSE WriteEntry(storage, LoadConfig(storage, "ok"), io)
        /\ UNCHANGED appvars
        /\ Handled([type |-> "SaveSettings", io |-> io])
        /\ Returns(TaskNone)

\* SaveSettings asking for another SaveSettings when the save did not happen.
SaveSettings_Retry ==
    \E io \in SaveOutcomes :
        /\ storage' = IF io = "no_context" THEN storage
                      ELSE WriteEntry(storage, config, io)
        /\ UNCHANGED appvars
        /\ Handled([type |-> "SaveSettings", io |-> io])
        /\ Returns(IF io = "ok" THEN TaskNone ELSE "SaveSettings")

SaveSettings ==
    \E io \in SaveOutcomes :
        /\ storage' = IF io = "no_context" THEN storage
                      ELSE WriteEntry(storage, config, io)
        /\ UNCHANGED appvars
        /\ Handled([type |-> "SaveSettings", io |-> io])
        /\ Returns(TaskNone)

\* AppModel::on_nav_select
OnNavSelect(id) ==
    /\ nav' = NavActivate(nav, id)
    /\ window_title' = UpdateTitle(NavActivate(nav, id))
    /\ UNCHANGED <<context_page, show_context, config, show_popup, storage>>
    /\ Handled([type |-> "on_nav_select", id |-> id])
    /\ Returns(TaskUpdateTitle)


----------------------------------------------------------------------------
(***************************************************************************)
(* Part II  the f32 arithmetic of KawaiiCanvas::draw.                      *)
(*                                                                         *)
(* A number is m * 2^e with a significand m of MantBits bits (f32 has 24), *)
(* every operation rounding its exact result to the nearest such number,   *)
(* ties to even, as IEEE 754 does.  The exponent is not bounded: no        *)
(* coordinate of a frame comes near the f32 range limits.  0/0 is NaN and  *)
(* x/0 an infinity.                                                        *)
(***************************************************************************)

\* Width of the significand.
MantBits == 10

Zero == [k |-> "num", m |-> 0, e |-> 0]

NaN == [k |-> "nan", m |-> 0, e |-> 0]

Inf(s) == [k |-> "inf", m |-> s, e |-> 0]

Num(m, e) == [k |-> "num", m |-> m, e |-> e]

IsNum(a) == a.k = "num"

AbsInt(i) == IF i < 0 THEN -i ELSE i

SignInt(i) == IF i < 0 THEN -1 ELSE 1

MaxInt(i, j) == IF i < j THEN j ELSE i

MinInt(i, j) == IF i < j THEN i ELSE j

\* The number of bits of n, 0 <= n < 2^30.
BitLen(n) == CHOOSE k \in 0..30 : n < 2^k /\ (k = 0 \/ n >= 2^(k - 1))

\* n / 2^s rounded to the nearest integer, ties to even.
RoundShift(n, s) ==
    IF s = 0 THEN n
    ELSE LET q == n \div 2^s
             r == n % 2^s
             h == 2^(s - 1)
         IN  IF r > h \/ (r = h /\ q % 2 = 1) THEN q + 1 ELSE q

\* The number nearest to n * 2^e, for an integer n.
Round(n, e) ==
    IF n = 0 THEN Zero
    ELSE LET a == AbsInt(n)
             l == BitLen(a)
         IN  IF l <= MantBits
             THEN Num(n * 2^(MantBits - l), e - (MantBits - l))
             ELSE LET s == l - MantBits
                      q == RoundShift(a, s)
                  IN  IF q = 2^MantBits
                      THEN Num(SignInt(n) * 2^(MantBits - 1), e + s + 1)
                      ELSE Num(SignInt(n) * q, e + s)

\* The number nearest to the fraction n / d, for integers n and d > 0: the
\* quotient is taken to MantBits + 2 bits at least and a last bit records
\* whether the division left a remainder.
RoundQuot(n, d, e) ==
    IF n = 0 THEN Zero
    ELSE LET a == AbsInt(n)
             sh == MantBits + 2 + MaxInt(0, BitLen(d) - BitLen(a))
             q == (a * 2^sh) \div d
             r == (a * 2^sh) % d
         IN  Round(SignInt(n) * (2 * q + (IF r = 0 THEN 0 ELSE 1)), e - sh - 1)

\* An integer as f32 (i as f32).
FInt(i) == Round(i, 0)

\* A decimal literal n/d of the source.
Lit(n, d) == RoundQuot(n, d, 0)

FNeg(a) == [a EXCEPT !.m = -a.m]

FAbs(a) == [a EXCEPT !.m = AbsInt(a.m)]

\* a + b
FAdd(a, b) ==
    IF a.k = "nan" \/ b.k = "nan" THEN NaN
    ELSE IF a.k = "inf" THEN (IF b.k = "inf" /\ b.m # a.m THEN NaN ELSE a)
    ELSE IF b.k = "inf" THEN b
    ELSE IF a.m = 0 THEN b
    ELSE IF b.m = 0 THEN a
    ELSE IF a.e - b.e > MantBits + 2 THEN a
    ELSE IF b.e - a.e > MantBits + 2 THEN b
    ELSE LET e0 == MinInt(a.e, b.e)
         IN  Round(a.m * 2^(a.e - e0) + b.m * 2^(b.e - e0), e0)

\* a - b
FSub(a, b) == FAdd(a, FNeg(b))

\* a * b
FMul(a, b) ==
    IF a.k = "nan" \/ b.k = "nan" THEN NaN
    ELSE IF a.k = "inf" \/ b.k = "inf"
         THEN (IF a.m = 0 \/ b.m = 0 THEN NaN ELSE Inf(SignInt(a.m) * SignInt(b.m)))
    ELSE Round(a.m * b.m, a.e + b.e)

\* a / b
FDiv(a, b) ==
    IF a.k = "nan" \/ b.k = "nan" THEN NaN
    ELSE IF a.k = "inf"
         THEN (IF b.k = "inf" THEN NaN ELSE Inf(a.m * SignInt(b.m)))
    ELSE IF b.k = "inf" THEN Zero
    ELSE IF b.m = 0 THEN (IF a.m = 0 THEN NaN ELSE Inf(SignInt(a.m)))
    ELSE RoundQuot(a.m * SignInt(b.m), AbsInt(b.m), a.e - b.e)

\* a < b
FLt(a, b) ==
    IF a.k = "nan" \/ b.k = "nan" THEN FALSE
    ELSE IF a.k = "inf" THEN a.m < 0 /\ ~(b.k = "inf" /\ b.m < 0)
    ELSE IF b.k = "inf" THEN b.m > 0
    ELSE FSub(a, b).m < 0

\* The largest r with r * r <= n, found bit by bit from 2^b down.
RECURSIVE ISqrt(_, _, _)
ISqrt(n, r, b) ==
    IF b < 0 THEN r
    ELSE IF (r + 2^b) * (r + 2^b) <= n THEN ISqrt(n, r + 2^b, b - 1)
    ELSE ISqrt(n, r, b - 1)

\* a.sqrt()
FSqrt(a) ==
    IF a.k = "nan" THEN NaN
    ELSE IF a.k = "inf" THEN (IF a.m > 0 THEN a ELSE NaN)
    ELSE IF a.m < 0 THEN NaN
    ELSE IF a.m = 0 THEN Zero
    ELSE LET sh == IF (a.e - (MantBits + 4)) % 2 = 0 THEN MantBits + 4
                   ELSE MantBits + 5
             n == a.m * 2^sh
             r == ISqrt(n, 0, 14)
         IN  Round(2 * r + (IF r * r = n THEN 0 ELSE 1), ((a.e - sh) \div 2) - 1)

\* a % b: the remainder of the division truncated towards zero, which is
\* exact.
FRem(a, b) ==
    IF ~IsNum(a) \/ ~IsNum(b) \/ b.m = 0 THEN NaN
    ELSE IF a.m = 0 THEN Zero
    ELSE IF FLt(FAbs(a), FAbs(b)) THEN a
    ELSE LET e0 == MinInt(a.e, b.e)
             x == AbsInt(a.m) * 2^(a.e - e0)
             y == AbsInt(b.m) * 2^(b.e - e0)
         IN  Round(SignInt(a.m) * (x % y), e0)

----------------------------------------------------------------------------
(* sin and cos: the argument is taken to TrigFrac binary places, reduced   *)
(* to a quarter turn, and the series of the sine summed in fixed point.    *)

TrigFrac == MantBits + 3

\* 2^TrigFrac times pi/2, pi and 2 pi (pi = 355/113 to seven places).
FxPi == (355 * 2^TrigFrac) \div 113

FxHalfPi == (355 * 2^TrigFrac) \div 226

FxTwoPi == (710 * 2^TrigFrac) \div 113

\* a as a multiple of 2^-TrigFrac.
ToFx(a) ==
    IF a.e + TrigFrac >= 0 THEN a.m * 2^(a.e + TrigFrac)
    ELSE IF -(a.e + TrigFrac) > MantBits + 1 THEN 0
    ELSE SignInt(a.m) * RoundShift(AbsInt(a.m), -(a.e + TrigFrac))

\* sin x for 0 <= x <= pi/2, both in multiples of 2^-TrigFrac.
FxSinQuarter(x) ==
    LET one == 2^TrigFrac
        x2 == (x * x) \div one
        t4 == one - x2 \div 72
        t3 == one - ((x2 * t4) \div one) \div 42
        t2 == one - ((x2 * t3) \div one) \div 20
        t1 == one - ((x2 * t2) \div one) \div 6
    IN  (x * t1) \div one

\* sin x for any x in multiples of 2^-TrigFrac.
FxSin(x) ==
    LET r == x % FxTwoPi
    IN  IF r <= FxHalfPi THEN FxSinQuarter(r)
        ELSE IF r <= FxPi THEN FxSinQuarter(FxPi - r)
        ELSE IF r <= FxPi + FxHalfPi THEN -FxSinQuarter(r - FxPi)
        ELSE -FxSinQuarter(FxTwoPi - r)

\* a.sin()
FSin(a) == IF ~IsNum(a) THEN NaN ELSE Round(FxSin(ToFx(a)), -TrigFrac)

\* a.cos()
FCos(a) == IF ~IsNum(a) THEN NaN ELSE Round(FxSin(ToFx(a) + FxHalfPi), -TrigFrac)

\* std::f32::consts::PI
PI == Lit(355, 113)

----------------------------------------------------------------------------
(***************************************************************************)
(* Part III  KawaiiCanvas::draw.                                           *)
(***************************************************************************)

loop_duration == 30

avoidance_radius == 20

repulsion_strength == 15

\* self.animation_time.elapsed().as_secs_f32(), the elapsed Duration being
\* a number of ticks: whole seconds plus the fraction of a second, each
\* converted and the sum rounded.
AsSecsF32(ticks) ==
    FAdd(FInt(ticks \div TicksPerSec),
         FDiv(FInt(ticks % TicksPerSec), FInt(TicksPerSec)))

\* LoopTime wrapping at a period other than the one it divides by.
LoopTime_Period(time) ==
    FDiv(FMul(FRem(time, FInt(loop_duration + 10)), FMul(PI, FInt(2))),
         FInt(loop_duration))

\* loop_time = (time % loop_duration) * (PI * 2.0) / loop_duration
LoopTime(time) ==
    FDiv(FMul(FRem(time, FInt(loop_duration)), FMul(PI, FInt(2))),
         FInt(loop_duration))

\* frame.center() of a frame of the size of the bounds
Center(b) == [x |-> FDiv(b.width, FInt(2)), y |-> FDiv(b.height, FInt(2))]

\* mouse_pos
MousePos(b, c) ==
    IF c.some
    THEN [x |-> FSub(c.x, b.x), y |-> FSub(c.y, b.y)]
    ELSE [x |-> FInt(-1), y |-> FInt(-1)]

\* Mouse avoidance of a circle at (x, y).
CircleAvoid(x, y, mouse_pos) ==
    LET dx == FSub(x, mouse_pos.x)
        dy == FSub(y, mouse_pos.y)
        distance == FSqrt(FAdd(FMul(dx, dx), FMul(dy, dy)))
    IN  IF FLt(distance, FInt(avoidance_radius))
        THEN LET repel_factor ==
                     FMul(FSub(FInt(1), FDiv(distance, FInt(avoidance_radius))),
                          FInt(repulsion_strength))
             IN  [x |-> FAdd(x, FMul(FDiv(dx, distance), repel_factor)),
                  y |-> FAdd(y, FMul(FDiv(dy, distance), repel_factor))]
        ELSE [x |-> x, y |-> y]

\* HeartAvoid pulling the heart towards the mouse.
HeartAvoid_Towards(x, y, mouse_pos) ==
    LET dx == FSub(x, mouse_pos.x)
        dy == FSub(y, mouse_pos.y)
        distance == FSqrt(FAdd(FMul(dx, dx), FMul(dy, dy)))
    IN  IF FLt(distance, FInt(avoidance_radius))
        THEN LET repel_factor ==
                     FMul(FSub(FInt(1), FDiv(distance, FInt(avoidance_radius))),
                          FInt(repulsion_strength))
             IN  [x |-> FSub(x, FMul(FDiv(dx, distance), repel_factor)),
                  y |-> FSub(y, FMul(FDiv(dy, distance), repel_factor))]
        ELSE [x |-> x, y |-> y]

\* Mouse avoidance of a heart at (x, y).
HeartAvoid(x, y, mouse_pos) ==
    LET dx == FSub(x, mouse_pos.x)
        dy == FSub(y, mouse_pos.y)
        distance == FSqrt(FAdd(FMul(dx, dx), FMul(dy, dy)))
    IN  IF FLt(distance, FInt(avoidance_radius))
        THEN LET repel_factor ==
                     FMul(FSub(FInt(1), FDiv(distance, FInt(avoidance_radius))),
                          FInt(repulsion_strength))
             IN  [x |-> FAdd(x, FMul(FDiv(dx, distance), repel_factor)),
                  y |-> FAdd(y, FMul(FDiv(dy, distance), repel_factor))]
        ELSE [x |-> x, y |-> y]

\* Mouse avoidance of a star at (x, y).
StarAvoid(x, y, mouse_pos) ==
    LET dx == FSub(x, mouse_pos.x)
        dy == FSub(y, mouse_pos.y)
        distance == FSqrt(FAdd(FMul(dx, dx), FMul(dy, dy)))
    IN  IF FLt(distance, FInt(avoidance_radius))
        THEN LET repel_factor ==
                     FMul(FSub(FInt(1), FDiv(distance, FInt(avoidance_radius))),
                          FInt(repulsion_strength))
             IN  [x |-> FAdd(x, FMul(FDiv(dx, distance), repel_factor)),
                  y |-> FAdd(y, FMul(FDiv(dy, distance), repel_factor))]
        ELSE [x |-> x, y |-> y]

\* The i-th background circle (for i in 0..5).
Circle(i, center, loop_time, mouse_pos) ==
    LET phase == FMul(FInt(i), Lit(12566, 10000))
        angle == FAdd(FMul(loop_time, Lit(3, 10)), phase)
        radius == FAdd(FInt(30),
                       FMul(FSin(FAdd(FMul(loop_time, Lit(15, 10)), phase)), FInt(8)))
        orbit_radius == FAdd(FInt(60), FMul(FInt(i), FInt(25)))
        x == FAdd(center.x, FMul(FCos(angle), orbit_radius))
        y == FAdd(center.y, FMul(FMul(FSin(angle), orbit_radius), Lit(7, 10)))
        p == CircleAvoid(x, y, mouse_pos)
    IN  [kind |-> "circle", i |-> i, angle |-> angle, x0 |-> x, y0 |-> y,
         x |-> p.x, y |-> p.y, size |-> radius, rotation |-> Zero,
         color |-> i % 4]

\* The i-th floating heart (for i in 0..8).
Heart(i, center, loop_time, mouse_pos) ==
    LET phase == FMul(FInt(i), Lit(785, 1000))
        t == FAdd(FMul(loop_time, Lit(8, 10)), phase)
        orbit_radius == FAdd(FInt(90), FMul(FInt(i % 3), FInt(20)))
        x == FAdd(center.x, FMul(FCos(t), orbit_radius))
        y == FAdd(FAdd(center.y, FMul(FMul(FSin(t), orbit_radius), Lit(6, 10))),
                  FMul(FSin(FMul(t, FInt(2))), FInt(15)))
        p == HeartAvoid(x, y, mouse_pos)
        heart_size == FAdd(FInt(8), FMul(FSin(FMul(t, Lit(25, 10))), FInt(3)))
    IN  [kind |-> "heart", i |-> i, angle |-> t, x0 |-> x, y0 |-> y,
         x |-> p.x, y |-> p.y, size |-> heart_size, rotation |-> Zero,
         color |-> 4]

\* The i-th sparkle star (for i in 0..12).
Star(i, center, loop_time, mouse_pos) ==
    LET phase == FMul(FInt(i), Lit(524, 1000))
        t == FAdd(FMul(loop_time, Lit(12, 10)), phase)
        orbit_radius == FAdd(FInt(120), FMul(FInt(i % 4), FInt(15)))
        x == FAdd(center.x, FMul(FCos(t), orbit_radius))
        y == FAdd(center.y, FMul(FMul(FSin(t), orbit_radius), Lit(8, 10)))
        size == FAdd(FInt(4), FMul(FAbs(FSin(FMul(t, FInt(3)))), FInt(2)))
        p == StarAvoid(x, y, mouse_pos)
        star_rotation == FMul(t, Lit(5, 10))
    IN  [kind |-> "star", i |-> i, angle |-> t, x0 |-> x, y0 |-> y,
         x |-> p.x, y |-> p.y, size |-> size, rotation |-> star_rotation,
         color |-> 5]

\* The shapes draw fills, in order, for an elapsed time, bounds and cursor.
Shapes(ticks, b, c) ==
    LET center == Center(b)
        loop_time == LoopTime(AsSecsF32(ticks))
        mouse_pos == MousePos(b, c)
    IN  [i \in 1..5 |-> Circle(i - 1, center, loop_time, mouse_pos)]
        \o [i \in 1..8 |-> Heart(i - 1, center, loop_time, mouse_pos)]
        \o [i \in 1..12 |-> Star(i - 1, center, loop_time, mouse_pos)]

\* The frames the canvas is given: a small one at the origin and a larger
\* one inside the window.
BoundsSet ==
    {[x |-> FInt(0), y |-> FInt(0), width |-> FInt(200), height |-> FInt(150)],
     [x |-> FInt(8), y |-> FInt(40), width |-> FInt(400), height |-> FInt(300)]}

NoCursor == [some |-> FALSE, x |-> Zero, y |-> Zero]

CursorAt(x, y) == [some |-> TRUE, x |-> x, y |-> y]

\* The cursors: unavailable, and two positions in the window.
Cursors == {NoCursor, CursorAt(FInt(160), FInt(75)), CursorAt(FInt(268), FInt(190))}

NoFrame == [drawn |-> FALSE, at |-> 0, shapes |-> <<>>]

InitCanvas ==
    /\ elapsed = 0
    /\ bounds \in BoundsSet
    /\ cursor \in Cursors
    /\ frame = NoFrame

\* canvas::Program::draw
Draw ==
    /\ ~frame.drawn \/ frame.at # elapsed
    /\ frame' = [drawn |-> TRUE, at |-> elapsed,
                 shapes |-> Shapes(elapsed, bounds, cursor)]
    /\ UNCHANGED <<elapsed, bounds, cursor>>

\* The clock advances by a tick once the frame of this instant is drawn.
TimePasses ==
    /\ frame.drawn /\ frame.at = elapsed
    /\ elapsed < MaxSecs * TicksPerSec
    /\ elapsed' = elapsed + 1
    /\ UNCHANGED <<bounds, cursor, frame>>

----------------------------------------------------------------------------
(* The mouse avoidance on its own: a computed position and a mouse         *)
(* position are chosen, and the avoidance of one shape kind is applied.    *)

Kinds == {"circle", "heart", "star"}

\* A coordinate given in sixteenths.
Sixteenths(n) == Round(n, -4)

\* Computed positions, in sixteenths: inside the frame, far to the right
\* where the numbers are coarser, and near the origin.
ProbePositions == {<<2240, 1600>>, <<4160, 1600>>, <<160, 192>>}

\* Where the mouse is relative to the position, in sixteenths: on it, close
\* by, just inside the avoidance radius, on it and outside.
ProbeOffsetsX == {0, 12, -12, 192, 240, 316, -316, 320, 400}

ProbeOffsetsY == {0, 256, -144}

NoProbe ==
    [kind |-> "none", x0 |-> Zero, y0 |-> Zero, mouse_pos |-> [x |-> Zero, y |-> Zero],
     done |-> FALSE, x |-> Zero, y |-> Zero]

\* let distance = (dx * dx + dy * dy).sqrt()
Distance(x, y, mouse_pos) ==
    LET dx == FSub(x, mouse_pos.x)
        dy == FSub(y, mouse_pos.y)
    IN  FSqrt(FAdd(FMul(dx, dx), FMul(dy, dy)))

InitAvoid ==
    \E k \in Kinds, p \in ProbePositions, ox \in ProbeOffsetsX, oy \in ProbeOffsetsY :
        probe = [kind |-> k, x0 |-> Sixteenths(p[1]), y0 |-> Sixteenths(p[2]),
                 mouse_pos |-> [x |-> Sixteenths(p[1] - ox),
                                y |-> Sixteenths(p[2] - oy)],
                 done |-> FALSE, x |-> Sixteenths(p[1]), y |-> Sixteenths(p[2])]

\* The mouse avoidance block of the probe's shape kind.
Avoid ==
    /\ ~probe.done
    /\ LET p == IF probe.kind = "circle"
                   THEN CircleAvoid(probe.x0, probe.y0, probe.mouse_pos)
                ELSE IF probe.kind = "heart"
                   THEN HeartAvoid(probe.x0, probe.y0, probe.mouse_pos)
                ELSE StarAvoid(probe.x0, probe.y0, probe.mouse_pos)
       IN  probe' = [probe EXCEPT !.done = TRUE, !.x = p.x, !.y = p.y]

----------------------------------------------------------------------------
(* The specifications. *)

\* While the application model is followed nothing is drawn.
CanvasIdle ==
    /\ elapsed = 0
    /\ bounds = [x |-> Zero, y |-> Zero, width |-> Zero, height |-> Zero]
    /\ cursor = NoCursor
    /\ frame = NoFrame
    /\ probe = NoProbe

Init == InitApp /\ CanvasIdle

Next ==
    \/ Relaunch
    \/ OpenRepositoryUrl
    \/ OpenAuthorUrl
    \/ SubscriptionChannel
    \/ TogglePopup
    \/ \E p \in ContextPage : ToggleContextPage(p)
    \/ \E c \in Configs : UpdateConfig(c)
    \/ LaunchUrl
    \/ Tick
    \/ GoToPage3
    \/ \E u \in Usernames : UpdateUsername(u)
    \/ SaveSettings
    \/ \E id \in NavIds : OnNavSelect(id)

Spec == Init /\ [][Next]_vars

\* The application freshly started on Page1, nothing stored.
AppStarted ==
    /\ InitApp
    /\ storage = NoEntry
    /\ last.io = "ok"

\* The canvas on its own.
InitDraw ==
    /\ AppStarted
    /\ InitCanvas
    /\ probe = NoProbe

NextDraw ==
    \/ Draw /\ UNCHANGED <<uivars, probe>>
    \/ TimePasses /\ UNCHANGED <<uivars, probe>>

SpecDraw == InitDraw /\ [][NextDraw]_vars

\* The mouse avoidance on its own.
InitProbe ==
    /\ AppStarted
    /\ elapsed = 0
    /\ bounds = [x |-> Zero, y |-> Zero, width |-> Zero, height |-> Zero]
    /\ cursor = NoCursor
    /\ frame = NoFrame
    /\ InitAvoid

NextProbe == Avoid /\ UNCHANGED <<uivars, drawvars>>

SpecAvoid == InitProbe /\ [][NextProbe]_vars

----------------------------------------------------------------------------
(* Properties of the application model. *)

\* C1: handling a nav selection of a page's nav item makes that page, and no
\* other, the active page; in every reachable state exactly one page is
\* active.
C1_NavSelectActivatesExactlyThatPage ==
    /\ Cardinality(ActivePages(nav)) = 1
    /\ ActivePages(nav) = {ActivePage(nav)}
    /\ last.type = "on_nav_select" =>
          /\ ActivePages(nav) = {NavItems[last.id]}
          /\ \A p \in Page \ {NavItems[last.id]} : p \notin ActivePages(nav)

\* A selection of the third item, made while the first was active, has been
\* handled.
C1_Witness ==
    /\ last.type = "on_nav_select"
    /\ last.id = 3
    /\ old.nav.active = 1
    /\ ActivePages(nav) = {"Page3"}

\* C2: ToggleContextPage(p) with p the current context page and the drawer
\* open closes the drawer and keeps the context page; with p another page it
\* leaves the drawer open on p, whether the drawer was open or closed.
C2_ToggleContextPage ==
    last.type = "ToggleContextPage" =>
        /\ (last.page = old.context_page /\ old.show_context) =>
              /\ ~show_context
              /\ ContextDrawer(show_context, context_page) = "None"
              /\ context_page = old.context_page
        /\ last.page # old.context_page =>
              /\ show_context
              /\ context_page = last.page
              /\ ContextDrawer(show_context, context_page) = last.page

\* The open drawer, switched to Settings earlier, has just been closed by
\* toggling Settings again.
C2_Witness ==
    /\ last.type = "ToggleContextPage"
    /\ last.page = "Settings"
    /\ old.context_page = "Settings"
    /\ old.show_context
    /\ ~show_context

\* C3 as claimed: after UpdateUsername(u) followed by SaveSettings, reading
\* the stored configuration back yields the username u.
C3_RoundTripAsClaimed ==
    [][(last.type = "UpdateUsername" /\ last'.type = "SaveSettings") =>
          LoadConfig(storage', "ok").username = last.username]_vars

\* C3, amended: after UpdateUsername(u) followed by a SaveSettings whose
\* write succeeds, reading the stored configuration back yields the username
\* u, and so does an init that follows the save and reads the entry.
C3_RoundTripWhenWritten ==
    [][/\ (last.type = "UpdateUsername" /\ last'.type = "SaveSettings"
              /\ last'.io = "ok") =>
            LoadConfig(storage', "ok").username = last.username
       /\ (last.type = "SaveSettings" /\ last.io = "ok"
              /\ last'.type = "init" /\ last'.io = "ok") =>
            config'.username = old.config.username]_vars

\* A username holding a quote has been written and reads back as typed.
C3_Witness ==
    /\ last.type = "SaveSettings"
    /\ last.io = "ok"
    /\ old.config.username = <<Quote>>
    /\ old.storage # storage
    /\ LoadConfig(storage, "ok").username = <<Quote>>

\* C4: the popup dialog is displayed if and only if the popup flag is set and
\* the active page is Page1; on Page2 and Page3 no dialog is displayed
\* whatever the flag.
C4_DialogOnlyOnPage1 ==
    /\ Dialog(show_popup, nav) = "Some" <=>
          (show_popup /\ ActivePages(nav) = {"Page1"})
    /\ ActivePages(nav) \cap {"Page2", "Page3"} # {} =>
          Dialog(show_popup, nav) = "None"

\* The flag is set on Page2 and no dialog is displayed.
C4_Witness ==
    /\ show_popup
    /\ ActivePages(nav) = {"Page2"}
    /\ Dialog(show_popup, nav) = "None"

\* C5: a TogglePopup step changes the popup flag and nothing else, and the
\* second of two TogglePopup steps in a row returns the flag to the value it
\* had before the first.
C5_DoubleTogglePopup ==
    [][last'.type = "TogglePopup" =>
          /\ show_popup' # show_popup
          /\ UNCHANGED <<nav, context_page, show_context, config,
                         window_title, storage>>
          /\ last.type = "TogglePopup" => show_popup' = old.show_popup]_vars

\* The flag has been toggled back from set to clear.
C5_Witness ==
    /\ last.type = "TogglePopup"
    /\ old.show_popup
    /\ ~show_popup

----------------------------------------------------------------------------
(* Properties of the error handling and of the persisted configuration. *)

\* The configuration could not be loaded: no config context, the entry not
\* readable, no entry stored, or a stored text that is no string value.
LoadFailed(st, io) ==
    \/ io # "ok"
    \/ ~st.exists
    \/ ~Deserialize(st.text).ok

\* C11: no configuration error is fatal or retried.  After an init whose
\* loading of the configuration failed the model exists, as init builds it,
\* with the default configuration; after a SaveSettings whose config context
\* could not be opened or whose write failed the model in memory is the one
\* before the message and the handler has returned Task::none(), so no
\* further message comes of it.
C11_ConfigErrorsAreSilent ==
    /\ (last.type = "init" /\ LoadFailed(storage, last.io)) =>
          /\ config = ConfigDefault
          /\ nav = NavInit
          /\ context_page = ContextPageDefault
          /\ ~show_context
          /\ ~show_popup
          /\ window_title = UpdateTitle(NavInit)
    /\ (last.type = "SaveSettings" /\ last.io # "ok") =>
          /\ nav = old.nav
          /\ context_page = old.context_page
          /\ show_context = old.show_context
          /\ config = old.config
          /\ show_popup = old.show_popup
          /\ window_title = old.window_title
          /\ task = TaskNone

\* The application started on a stored text it could not parse, a username
\* was typed, and the write of SaveSettings has just failed: the typed
\* username is still in memory, the stored text is still the unreadable one.
C11_Witness ==
    /\ last.type = "SaveSettings"
    /\ last.io = "write_error"
    /\ storage = Entry(Garbage)
    /\ LoadFailed(storage, "ok")
    /\ LoadConfig(storage, "ok") = ConfigDefault
    /\ config.username = <<"a">>
    /\ task = TaskNone

\* C12: whichever page is active, after GoToPage3 has been handled Page3,
\* and no other page, is the active one, and the context page, the
\* drawer-open flag, the popup flag and the configuration are what they were
\* before; handled with Page3 active, it leaves Page3 active.
C12_GoToPage3 ==
    last.type = "GoToPage3" =>
        /\ ActivePages(nav) = {"Page3"}
        /\ ActivePage(nav) = "Page3"
        /\ context_page = old.context_page
        /\ show_context = old.show_context
        /\ show_popup = old.show_popup
        /\ config = old.config
        /\ ActivePages(old.nav) = {"Page3"} => nav = old.nav

\* GoToPage3 has been handled on Page2 with the drawer open on Settings, the
\* popup flag set and a username typed.
C12_Witness ==
    /\ last.type = "GoToPage3"
    /\ ActivePages(old.nav) = {"Page2"}
    /\ ActivePages(nav) = {"Page3"}
    /\ context_page = "Settings"
    /\ show_context
    /\ show_popup
    /\ config.username = <<"a">>

\* The fields of the model other than the configuration are what they were
\* before the step.
OnlyConfigTouched ==
    /\ nav' = nav
    /\ context_page' = context_page
    /\ show_context' = show_context
    /\ show_popup' = show_popup
    /\ window_title' = window_title

\* C13: the stored configuration changes only in a SaveSettings step.  An
\* UpdateUsername(u) step sets the username in memory to u and changes
\* nothing else, an UpdateConfig(c) step makes c the configuration in memory
\* and changes nothing else; so after UpdateUsername(u) followed by
\* UpdateConfig(c) the configuration in memory is c, whatever u was, nothing
\* of u has been stored, and a SaveSettings after it can only store c.
C13_StoredOnlyBySaveSettings ==
    [][/\ storage' # storage => last'.type = "SaveSettings"
       /\ last'.type = "UpdateUsername" =>
             /\ config' = [config EXCEPT !.username = last'.username]
             /\ OnlyConfigTouched
             /\ storage' = storage
       /\ last'.type = "UpdateConfig" =>
             /\ config' = last'.config
             /\ OnlyConfigTouched
             /\ storage' = storage
       /\ (last.type = "UpdateUsername" /\ last'.type = "UpdateConfig") =>
             /\ config' = last'.config
             /\ storage' = old.storage
       /\ (last.type = "UpdateConfig" /\ last'.type = "SaveSettings") =>
             storage' \in {storage, Entry(Serialize(last.config.username))}]_vars

\* A username was in memory and in no stored entry when the config watcher
\* delivered a configuration with another username: the one in memory is now
\* the delivered one, and nothing is stored.
C13_Witness ==
    /\ last.type = "UpdateConfig"
    /\ old.config.username = <<"a">>
    /\ last.config.username = <<Quote>>
    /\ config.username = <<Quote>>
    /\ storage = NoEntry
    /\ old.storage = NoEntry

----------------------------------------------------------------------------
(* Properties of the canvas. *)

\* The coordinate p0, moved to p, has not come nearer the coordinate m.
Away(p0, p, m) ==
    /\ FLt(m, p0) => ~FLt(p, p0)
    /\ FLt(p0, m) => ~FLt(p0, p)
    /\ p0 = m => p = p0

\* The distance the code computed for the probe before the avoidance.
ProbeDistance == Distance(probe.x0, probe.y0, probe.mouse_pos)

InsideRadius(d) == FLt(Zero, d) /\ FLt(d, FInt(avoidance_radius))

\* C6 as claimed: a position whose distance to the cursor is not below the
\* avoidance radius is left unchanged, and one at a distance d, 0 < d < 20,
\* is moved away from the cursor so that its distance strictly increases:
\* no coordinate comes nearer the cursor and one at least moves.
C6_RepulsionStrictlyFarther ==
    probe.done =>
        /\ ~FLt(ProbeDistance, FInt(avoidance_radius)) =>
              probe.x = probe.x0 /\ probe.y = probe.y0
        /\ InsideRadius(ProbeDistance) =>
              /\ Away(probe.x0, probe.x, probe.mouse_pos.x)
              /\ Away(probe.y0, probe.y, probe.mouse_pos.y)
              /\ probe.x # probe.x0 \/ probe.y # probe.y0

\* C6, amended: a position whose computed distance to the cursor is not
\* below the avoidance radius is left unchanged; at a computed distance d,
\* 0 < d < 20, each coordinate is moved away from the cursor or, when the
\* displacement is rounded away, left where it is: no coordinate comes
\* nearer the cursor or moves by more than the repulsion strength, and the
\* computed distance does not decrease.
C6_RepulsionNeverNearer ==
    probe.done =>
        /\ ~FLt(ProbeDistance, FInt(avoidance_radius)) =>
              probe.x = probe.x0 /\ probe.y = probe.y0
        /\ InsideRadius(ProbeDistance) =>
              /\ IsNum(probe.x) /\ IsNum(probe.y)
              /\ Away(probe.x0, probe.x, probe.mouse_pos.x)
              /\ Away(probe.y0, probe.y, probe.mouse_pos.y)
              /\ ~FLt(FInt(repulsion_strength), FAbs(FSub(probe.x, probe.x0)))
              /\ ~FLt(FInt(repulsion_strength), FAbs(FSub(probe.y, probe.y0)))
              /\ ~FLt(Distance(probe.x, probe.y, probe.mouse_pos), ProbeDistance)

\* A heart inside the radius has been pushed along both axes.
C6_Witness ==
    /\ probe.done
    /\ probe.kind = "heart"
    /\ InsideRadius(ProbeDistance)
    /\ probe.x # probe.x0
    /\ probe.y # probe.y0
    /\ FLt(ProbeDistance, Distance(probe.x, probe.y, probe.mouse_pos))

\* C7 as claimed: a shape whose computed position is the cursor position is
\* left where it is, at a position that is a number.
C7_CoincidingShapeLeftAlone ==
    frame.drawn =>
        \A i \in DOMAIN frame.shapes :
            LET s == frame.shapes[i]
                mouse_pos == MousePos(bounds, cursor)
            IN  (s.x0 = mouse_pos.x /\ s.y0 = mouse_pos.y) =>
                    /\ IsNum(s.x) /\ IsNum(s.y)
                    /\ s.x = s.x0 /\ s.y = s.y0

\* C8 as claimed: without a cursor position no shape is moved by the mouse
\* avoidance, whatever the frame and the elapsed time.
C8_NoCursorNoRepulsion ==
    (frame.drawn /\ ~cursor.some) =>
        \A i \in DOMAIN frame.shapes :
            frame.shapes[i].x = frame.shapes[i].x0 /\ frame.shapes[i].y = frame.shapes[i].y0

\* One loop period, in ticks.
LoopTicks == loop_duration * TicksPerSec

\* The elapsed time of so many ticks is an f32 exactly.
ExactSecs(ticks) ==
    LET a == AsSecsF32(ticks)
    IN  IF a.e >= 0 THEN a.m * 2^a.e * TicksPerSec = ticks
        ELSE a.m * TicksPerSec = ticks * 2^(-a.e)

\* C9 as claimed: the shapes drawn one loop period later equal the shapes
\* drawn now, bounds and cursor being the same.
C9_LoopPeriodicity ==
    frame.drawn => Shapes(frame.at + LoopTicks, bounds, cursor) = frame.shapes

\* C9, amended: the shapes drawn one loop period later equal the shapes
\* drawn now whenever both elapsed times are f32 numbers exactly, as 0 and
\* 30 are.
C9_LoopPeriodicityOfExactTimes ==
    (frame.drawn /\ ExactSecs(frame.at) /\ ExactSecs(frame.at + LoopTicks)) =>
        Shapes(frame.at + LoopTicks, bounds, cursor) = frame.shapes

\* The frame of the loop period's end has been drawn, with a cursor, and is
\* the frame of two periods.
C9_Witness ==
    /\ frame.drawn
    /\ frame.at = LoopTicks
    /\ cursor.some
    /\ ExactSecs(frame.at + LoopTicks)
    /\ Shapes(frame.at + LoopTicks, bounds, cursor) = frame.shapes

\* The speed factor of a shape kind, in tenths.
SpeedTenths(kind) == IF kind = "circle" THEN 3 ELSE IF kind = "heart" THEN 8 ELSE 12

\* The distance round the circle between two angles, in multiples of
\* 2^-TrigFrac.
AngleStep(a, b) ==
    LET r == (ToFx(b) - ToFx(a)) % FxTwoPi
    IN  MinInt(r, FxTwoPi - r)

\* Twice the step of the angle per tick, and two units in the last place of
\* an angle below 16 for the rounding.
StepBound(kind) ==
    2 * ((SpeedTenths(kind) * FxTwoPi) \div (10 * loop_duration * TicksPerSec))
        + 2^(TrigFrac + 5 - MantBits)

\* C10 as claimed: from one instant to the next the orbit angle of every
\* shape changes by a small step only, modulo a full turn, also when the
\* elapsed time reaches the loop period.
C10_NoJumpAtWraparound ==
    [][(frame.drawn /\ frame'.drawn /\ frame'.at = frame.at + 1) =>
          \A i \in DOMAIN frame.shapes :
              AngleStep(frame.shapes[i].angle, frame'.shapes[i].angle)
                  <= StepBound(frame.shapes[i].kind)]_vars

\* Away from the end of the loop period the angles do change by a small
\* step only.
SmallStepsWithinLoop ==
    [][(frame.drawn /\ frame'.drawn /\ frame'.at = frame.at + 1
            /\ frame'.at % LoopTicks # 0) =>
          \A i \in DOMAIN frame.shapes :
              AngleStep(frame.shapes[i].angle, frame'.shapes[i].angle)
                  <= StepBound(frame.shapes[i].kind)]_vars

====
